---- MODULE Spec2Model ----
(***************************************************************************)
(* The task/subtask tree of src/tasks (Task.py, Subtask.py, BaseTask.py)   *)
(* as a heap of objects.  Node 0 is the root object, a Task or a BaseTask  *)
(* (chosen at construction); nodes 1..MaxSubtasks are Subtask objects.     *)
(* Every method of the three classes that the tree claims are about is one *)
(* action; `last` records the most recent call and what it returned or     *)
(* raised.                                                                 *)
(***************************************************************************)
EXTENDS Integers, Sequences, FiniteSets, TLC

\* ---- bounds of the model ------------------------------------------------
MaxSubtasks == 3        \* number of Subtask objects the caller builds
MaxDeep     == 4        \* the same, in the specification of the flattening (SpecDeep)
MaxComments == 1        \* longest comments list of the BaseTask root
MaxParsed   == 2        \* longest list SubtaskParser.parse hands to generate_subtasks
MaxLinked   == 2        \* Subtask objects where the caller sets parent references itself (SpecParents)
MaxEntries  == 2        \* longest list inside the JSON a language model returns

\* ---- objects -------------------------------------------------------------
Root  == 0
Subs  == 1..(IF MaxDeep > MaxSubtasks THEN MaxDeep ELSE MaxSubtasks)
Nodes == {Root} \cup Subs
None  == -9             \* Python's None: a value no index, id, duration or object takes
NoType == "None"        \* Python's None for supertask_type
CommentValues == {"c1", "c2"}

VARIABLES
    rootKind,           \* class of node 0: "task" (Task.py) or "base" (BaseTask.py)
    estimated_minutes,  \* [Nodes -> Nat]
    has_subtasks,       \* [Nodes -> BOOLEAN]; Task has no such field (kept FALSE, never read)
    subtasks,           \* [Nodes -> Seq(Subs)]: the list object, when there is one
    subtasks_is_none,   \* [Nodes -> BOOLEAN]: Subtask.subtasks is None
    index,              \* [Nodes -> Int]: Subtask.index, None until assigned
    supertask,          \* [Nodes -> Nodes \cup {None}]: Subtask._supertask
    supertask_id,       \* [Nodes -> Int]
    supertask_type,     \* [Nodes -> STRING]
    comments,           \* BaseTask.comments of the root
    held,               \* Subtask objects the caller has built and still works with
    last,               \* the most recent call and its outcome (see Call)
    llm_output,         \* the text the language model returned (see Texts)
    parsed,             \* what SubtaskParser.parse made of it (see SubtaskParser_parse)
    caller,             \* where the calling thread is in BaseLLMProcessor.process
    worker,             \* where the executor's thread is in the submitted function
    future              \* the submitted call: its object, its state, what the caller raises

vars == <<rootKind, estimated_minutes, has_subtasks, subtasks, subtasks_is_none,
          index, supertask, supertask_id, supertask_type, comments, held, last,
          llm_output, parsed, caller, worker, future>>

\* the state of the LLM-facing layer, which no tree operation touches
procVars == <<caller, worker, future>>
llmVars == <<llm_output, parsed, procVars>>

treeVars == <<estimated_minutes, has_subtasks, subtasks, subtasks_is_none,
              index, supertask, supertask_id, supertask_type, comments, held>>

\* ---- fields no tree operation writes -------------------------------------
\* id is assigned by the caller (Task.py:25, Subtask.py:28, BaseTask.py:32):
\* the root keeps the default 0, subtasks 1 and 2 share an id, 3 and 4 the next.
\* name, context and the tag lists are taken equal on all Subtask objects.
IdOf(n) == IF n = Root THEN 0 ELSE (n + 1) \div 2

\* estimated_minutes the caller constructs Subtask n with
EstOf(n) == 5 * ((n + 1) \div 2)

\* the name each object was constructed with: Subtask 3 has a whitespace-only one
NameOf(n) == IF n = 3 THEN "  " ELSE "task"

KindOf(n) == IF n = Root THEN rootKind ELSE "subtask"

\* ---- helpers over the heap ------------------------------------------------
Range(s) == {s[p] : p \in DOMAIN s}

\* the subtasks list as Python iterates it (a list that is None has no items)
Items(n) == IF subtasks_is_none[n] THEN <<>> ELSE subtasks[n]

RECURSIVE SumOver(_, _)
SumOver(est, s) == IF s = <<>> THEN 0 ELSE est[Head(s)] + SumOver(est, Tail(s))

RECURSIVE Descendants(_)
Descendants(n) ==
    Range(Items(n)) \cup UNION {Descendants(c) : c \in Range(Items(n))}

InSomeList(c) == \E n \in Nodes : c \in Range(Items(n))

\* the objects the caller calls methods on: the root, and every Subtask it holds
\* that sits under no Subtask it has let go of (a Subtask taken out of a list by
\* remove_subtask, update_subtask or clear_subtasks is let go of)
RECURSIVE Live(_)
Live(n) ==
    \/ n = Root
    \/ /\ n \in held
       /\ \A m \in Nodes : n \in Range(Items(m)) => Live(m)

\* a Subtask object the caller may hand to add_subtask / update_subtask of o:
\* a newly built one (never yet in a list) that does not contain o, so that the
\* structure stays a tree
Attachable(o, c) ==
    /\ c \in Subs
    /\ c # o
    /\ c \in held
    /\ ~InSomeList(c)
    /\ o \notin Descendants(c)

\* the record kept in `last`: the method, its receiver, its arguments (an index
\* and/or a Subtask object), how it ended, and what it returned
Call(op, self, arg, obj, outcome, ret, seq) ==
    [op |-> op, self |-> self, arg |-> arg, obj |-> obj, outcome |-> outcome,
     ret |-> ret, seq |-> seq]

Did(op, self, arg, obj) == Call(op, self, arg, obj, "ok", None, <<>>)
Returned(op, self, arg, ret, seq) == Call(op, self, arg, None, "ok", ret, seq)
Raised(op, self, arg, exc) == Call(op, self, arg, None, exc, None, <<>>)

\* ---- the text a language model returns ----------------------------------
\* A JSON value, as json.loads returns it: a scalar (number, string, null), a
\* list, or a mapping.  A mapping is described by the keys it has and by what
\* it holds under "name", "estimated_minutes" (None for JSON null) and
\* "subtasks" (`list` tells whether that value is a list, `items` its entries).
JScalar == [t |-> "scalar", keys |-> {}, name |-> "", minutes |-> 0, list |-> FALSE, items |-> <<>>]
JList(items) == [t |-> "list", keys |-> {}, name |-> "", minutes |-> 0, list |-> TRUE, items |-> items]
JMap(keys, name, minutes, list, items) ==
    [t |-> "map", keys |-> keys, name |-> name, minutes |-> minutes, list |-> list, items |-> items]
JPlain(name, minutes) == JMap({"name", "estimated_minutes"}, name, minutes, FALSE, <<>>)
JNested(name, minutes, items) ==
    JMap({"name", "estimated_minutes", "subtasks"}, name, minutes, TRUE, items)

SeqsUpTo(S, n) == UNION {[1..k -> S] : k \in 0..n}

\* entries without children: A(10), B1(5), {}, a null duration, a "subtasks"
\* value that is not a list, an empty "subtasks" list, and a scalar entry
JLeaves ==
    { JPlain("A", 10), JPlain("B1", 5), JMap({}, "", 0, FALSE, <<>>),
      JPlain("A", None),
      JMap({"name", "subtasks"}, "A", 0, FALSE, <<>>),
      JNested("A", 10, <<>>), JScalar }
JEntries == JLeaves \cup {JNested("B", 20, k) : k \in SeqsUpTo(JLeaves, MaxEntries) \ {<<>>}}
JDocuments ==
    {JScalar} \cup JEntries
        \cup {JList(k) : k \in SeqsUpTo(JEntries, MaxEntries)}
        \cup {JNested("T", 0, k) : k \in SeqsUpTo(JEntries, MaxEntries)}

\* A text is a sequence of tokens: a ``` fence, the word json, other prose, or
\* the serialisation of one JSON value.
Tok(kind) == [tok |-> kind, doc |-> JScalar]
Fence == Tok("fence")
JsonTag == Tok("json")
Prose == Tok("prose")
Dump(d) == [tok |-> "doc", doc |-> d]
TextsOf(d) ==
    { <<Dump(d)>>,
      <<Prose, Fence, JsonTag, Dump(d), Fence, Prose>>,
      <<Fence, Dump(d), Fence>>,
      <<Prose, Dump(d)>>,
      <<Fence, JsonTag, Dump(d)>> }
\* every document bare, and the smaller ones in every wrapping
Texts ==
    {<<>>, <<Prose>>} \cup {<<Dump(d)>> : d \in JDocuments}
        \cup UNION {TextsOf(d) : d \in {JScalar} \cup JEntries}
NoText == <<Tok("none")>>
NotParsed == [outcome |-> "none", subtasks |-> <<>>]
NoFuture == [node |-> None, state |-> "none", raised |-> "none"]
NoLLMCall ==
    /\ llm_output = NoText /\ parsed = NotParsed
    /\ caller = "idle" /\ worker = "none" /\ future = NoFuture

\* ---- SubtaskParser -------------------------------------------------------
\* The Subtask objects the parser builds, as values: Subtask(name=...,
\* estimated_minutes=..., has_subtasks=..., subtasks=[]) and what add_subtask
\* appends to it.
NewSubtask_childless(name, minutes, has, kids) ==
    [name |-> name, estimated_minutes |-> minutes, has_subtasks |-> has, subtasks |-> <<>>]
NewSubtask(name, minutes, has, kids) ==
    [name |-> name, estimated_minutes |-> minutes, has_subtasks |-> has, subtasks |-> kids]
Built(nodes) == [raised |-> FALSE, made |-> nodes]
Throws == [raised |-> TRUE, made |-> <<>>]

\* `re.search(r'```(?:json)?\s*([\s\S]+?)\s*```', llm_output)`: the tokens between
\* the first fence and the next one, without a leading json tag; the whole text
\* when there is no such pair
FencePairs(text) ==
    {<<i, j>> \in (1..Len(text)) \X (1..Len(text)) :
        /\ text[i] = Fence /\ text[j] = Fence /\ i + 1 < j
        /\ \A k \in 1..(j - 1) : text[k] = Fence => k = i}
Extract(text) ==
    IF FencePairs(text) = {} THEN text
    ELSE LET ij == CHOOSE x \in FencePairs(text) : TRUE
             from == IF text[ij[1] + 1] = JsonTag /\ ij[1] + 2 < ij[2]
                     THEN ij[1] + 2 ELSE ij[1] + 1
         IN SubSeq(text, from, ij[2] - 1)

\* json.loads: the text is JSON when it is the serialisation of one value
Loads(json_str) ==
    IF Len(json_str) = 1 /\ json_str[1].tok = "doc"
    THEN [raised |-> FALSE, data |-> json_str[1].doc]
    ELSE [raised |-> TRUE, data |-> JScalar]

RECURSIVE SubtaskParser_create_subtask_from_dict(_)
RECURSIVE CreateEach(_, _)
\* `for nested_data in ...: ... _create_subtask_from_dict(nested_data)`: the
\* first entry that cannot be built ends the loop with its exception
CreateEach_skipping_failures(entries, made) ==
    IF entries = <<>> THEN Built(made)
    ELSE LET one == SubtaskParser_create_subtask_from_dict(Head(entries))
         IN IF one.raised THEN CreateEach(Tail(entries), made)
            ELSE CreateEach(Tail(entries), made \o one.made)
CreateEach_newest_first(entries, made) ==
    IF entries = <<>> THEN Built(made)
    ELSE LET one == SubtaskParser_create_subtask_from_dict(Head(entries))
         IN IF one.raised THEN Throws
            ELSE CreateEach(Tail(entries), one.made \o made)
CreateEach(entries, made) ==
    IF entries = <<>> THEN Built(made)
    ELSE LET one == SubtaskParser_create_subtask_from_dict(Head(entries))
         IN IF one.raised THEN Throws
            ELSE CreateEach(Tail(entries), made \o one.made)

\* `"subtasks" in data` and `data.get` raise on a value that is not a mapping;
\* Subtask(...) raises pydantic's ValidationError on estimated_minutes=None
SubtaskParser_create_subtask_from_dict(data) ==
    IF data.t # "map" THEN Throws
    ELSE LET has_nested_subtasks ==
                 "subtasks" \in data.keys /\ data.list /\ data.items # <<>>
             name == IF "name" \in data.keys THEN data.name ELSE "Unnamed Subtask"
             minutes == IF "estimated_minutes" \in data.keys THEN data.minutes ELSE 0
         IN IF minutes = None THEN Throws
            ELSE IF ~has_nested_subtasks
            THEN Built(<<NewSubtask(name, minutes, FALSE, <<>>)>>)
            ELSE LET nested == CreateEach(data.items, <<>>)
                 IN IF nested.raised THEN Throws
                    ELSE Built(<<NewSubtask(name, minutes, TRUE, nested.made)>>)

\* the body of parse's try block
ParseBody(llm) ==
    LET loaded == Loads(Extract(llm))
        data == loaded.data
    IN IF loaded.raised THEN Throws
       ELSE IF data.t = "map" /\ "subtasks" \in data.keys /\ data.list
       THEN CreateEach(data.items, <<>>)
       ELSE IF data.t = "list" THEN CreateEach(data.items, <<>>)
       ELSE SubtaskParser_create_subtask_from_dict(data)

\* `except Exception as e: print(...); return []`
ExceptReraises(r) ==
    IF r.raised THEN [outcome |-> "raised", subtasks |-> <<>>]
    ELSE [outcome |-> "returned", subtasks |-> r.made]
ExceptReturnsEmpty(r) ==
    IF r.raised THEN [outcome |-> "returned", subtasks |-> <<>>]
    ELSE [outcome |-> "returned", subtasks |-> r.made]
SubtaskParser_parse(llm) == ExceptReturnsEmpty(ParseBody(llm))

\* ---- construction ---------------------------------------------------------
Init ==
    /\ rootKind \in {"task", "base"}
    /\ estimated_minutes = [n \in Nodes |-> IF n = Root THEN 0 ELSE EstOf(n)]
    /\ has_subtasks = [n \in Nodes |-> FALSE]
    /\ subtasks = [n \in Nodes |-> <<>>]
    /\ subtasks_is_none = [n \in Nodes |-> n # Root]
    /\ index = [n \in Nodes |-> None]
    /\ supertask = [n \in Nodes |-> None]
    /\ supertask_id = [n \in Nodes |-> None]
    /\ supertask_type = [n \in Nodes |-> NoType]
    /\ comments = <<>>
    /\ held = 1..MaxSubtasks
    /\ last = Did("init", Root, None, None)
    /\ NoLLMCall

\* ---- set_supertask --------------------------------------------------------
\* `getattr(task, 'id', None)`: None itself has no id
IdAttr(task) == IF task = None THEN None ELSE IdOf(task)

\* set_supertask that stores the reference and the id but leaves supertask_type
Subtask_set_supertask_keeps_type(st, c, task, task_type) ==
    [sup  |-> [st.sup  EXCEPT ![c] = task],
     sid  |-> [st.sid  EXCEPT ![c] = IdAttr(task)],
     styp |-> st.styp]

\* Subtask.set_supertask(task, task_type) as an update of the three fields
Subtask_set_supertask(st, c, task, task_type) ==
    [sup  |-> [st.sup  EXCEPT ![c] = task],
     sid  |-> [st.sid  EXCEPT ![c] = IdAttr(task)],
     styp |-> [st.styp EXCEPT ![c] = task_type]]

Links == [sup |-> supertask, sid |-> supertask_id, styp |-> supertask_type]

SetLinks(st) ==
    /\ supertask' = st.sup
    /\ supertask_id' = st.sid
    /\ supertask_type' = st.styp

\* the values a caller passes as task_type
TaskTypes == {"task", "subtask"}

\* A call of set_supertask by the caller itself: `task` is any object the caller
\* holds, the Subtask itself included, or None; nothing in the method looks at it.
Subtask_set_supertask_call(c, task, task_type) ==
    /\ KindOf(c) = "subtask" /\ Live(c)
    /\ task = None \/ Live(task)
    /\ SetLinks(Subtask_set_supertask(Links, c, task, task_type))
    /\ last' = Call("set_supertask", c, None, task, "ok", None, <<task_type>>)
    /\ UNCHANGED <<llmVars, rootKind, estimated_minutes, has_subtasks, subtasks, subtasks_is_none,
                   index, comments, held>>

SetSupertask ==
    \E c \in Subs, task \in Nodes \cup {None}, task_type \in TaskTypes :
        Subtask_set_supertask_call(c, task, task_type)

\* ---- add_subtask ----------------------------------------------------------
Task_add_subtask(o, c) ==
    /\ KindOf(o) = "task" /\ Live(o)
    /\ Attachable(o, c)
    /\ subtasks' = [subtasks EXCEPT ![o] = Append(@, c)]
    /\ SetLinks(Subtask_set_supertask(Links, c, o, "task"))
    /\ last' = Did("add_subtask", o, None, c)
    /\ UNCHANGED <<llmVars, rootKind, estimated_minutes, has_subtasks, subtasks_is_none, index, comments, held>>

Subtask_add_subtask_reindexing(o, c) ==
    /\ KindOf(o) = "subtask" /\ Live(o)
    /\ Attachable(o, c)
    /\ subtasks_is_none' = [subtasks_is_none EXCEPT ![o] = FALSE]
    /\ has_subtasks' = [has_subtasks EXCEPT ![o] = TRUE]
    /\ subtasks' = [subtasks EXCEPT ![o] = Append(Items(o), c)]
    /\ index' = [index EXCEPT ![c] = Len(Items(o)) + 1]
    /\ last' = Did("add_subtask", o, None, c)
    /\ UNCHANGED <<llmVars, rootKind, estimated_minutes, supertask, supertask_id,
                   supertask_type, comments, held>>
Subtask_add_subtask(o, c) ==
    /\ KindOf(o) = "subtask" /\ Live(o)
    /\ Attachable(o, c)
    /\ subtasks_is_none' = [subtasks_is_none EXCEPT ![o] = FALSE]
    /\ has_subtasks' = [has_subtasks EXCEPT ![o] = TRUE]
    /\ subtasks' = [subtasks EXCEPT ![o] = Append(Items(o), c)]
    /\ last' = Did("add_subtask", o, None, c)
    /\ UNCHANGED <<llmVars, rootKind, estimated_minutes, index, supertask, supertask_id,
                   supertask_type, comments, held>>

BaseTask_add_subtask(o, c) ==
    /\ KindOf(o) = "base" /\ Live(o)
    /\ Attachable(o, c)
    /\ subtasks' = [subtasks EXCEPT ![o] = Append(@, c)]
    /\ last' = Did("add_subtask", o, None, c)
    /\ UNCHANGED <<llmVars, rootKind, estimated_minutes, has_subtasks, subtasks_is_none, index,
                   supertask, supertask_id, supertask_type, comments, held>>

AddSubtask ==
    \E o \in Nodes, c \in Subs :
        \/ Task_add_subtask(o, c)
        \/ Subtask_add_subtask(o, c)
        \/ BaseTask_add_subtask(o, c)

\* ---- set_subtasks_index / set_subtask_index --------------------------------
\* `subtask.index = i`: positions counted from 0
AssignPositions_from_zero(idx, list) ==
    [n \in Nodes |->
        IF n \in Range(list)
        THEN (CHOOSE p \in DOMAIN list :
                 list[p] = n /\ \A q \in DOMAIN list : list[q] = n => q <= p) - 1
        ELSE idx[n]]

\* `for i, subtask in enumerate(list): subtask.index = i + 1`
AssignPositions(idx, list) ==
    [n \in Nodes |->
        IF n \in Range(list)
        THEN CHOOSE p \in DOMAIN list :
                 list[p] = n /\ \A q \in DOMAIN list : list[q] = n => q <= p
        ELSE idx[n]]

Task_set_subtask_index_on(idx, o, list) == AssignPositions(idx, list)

\* Subtask.set_subtasks_index on a Subtask whose list is `list` (or None)
Subtask_set_subtasks_index_on(idx, isNone, list) ==
    IF isNone THEN idx ELSE AssignPositions(idx, list)

\* BaseTask.set_subtasks_index: position p onward of the enumerate loop; a child
\* with has_subtasks set runs its own (Subtask) set_subtasks_index
RECURSIVE BaseTask_set_subtasks_index_from(_, _, _)
BaseTask_set_subtasks_index_from(idx, list, p) ==
    IF p > Len(list) THEN idx
    ELSE LET c    == list[p]
             idx1 == [idx EXCEPT ![c] = p]
             idx2 == IF has_subtasks[c]
                     THEN Subtask_set_subtasks_index_on(idx1, subtasks_is_none[c], subtasks[c])
                     ELSE idx1
         IN BaseTask_set_subtasks_index_from(idx2, list, p + 1)

BaseTask_set_subtasks_index_on(idx, list) == BaseTask_set_subtasks_index_from(idx, list, 1)

Task_set_subtask_index(o) ==
    /\ KindOf(o) = "task" /\ Live(o)
    /\ index' = Task_set_subtask_index_on(index, o, subtasks[o])
    /\ last' = Did("set_subtasks_index", o, None, None)
    /\ UNCHANGED <<llmVars, rootKind, estimated_minutes, has_subtasks, subtasks, subtasks_is_none,
                   supertask, supertask_id, supertask_type, comments, held>>

Subtask_set_subtasks_index(o) ==
    /\ KindOf(o) = "subtask" /\ Live(o)
    /\ index' = Subtask_set_subtasks_index_on(index, subtasks_is_none[o], subtasks[o])
    /\ last' = Did("set_subtasks_index", o, None, None)
    /\ UNCHANGED <<llmVars, rootKind, estimated_minutes, has_subtasks, subtasks, subtasks_is_none,
                   supertask, supertask_id, supertask_type, comments, held>>

BaseTask_set_subtasks_index(o) ==
    /\ KindOf(o) = "base" /\ Live(o)
    /\ index' = BaseTask_set_subtasks_index_on(index, subtasks[o])
    /\ last' = Did("set_subtasks_index", o, None, None)
    /\ UNCHANGED <<llmVars, rootKind, estimated_minutes, has_subtasks, subtasks, subtasks_is_none,
                   supertask, supertask_id, supertask_type, comments, held>>

SetSubtasksIndex ==
    \E o \in Nodes :
        \/ Task_set_subtask_index(o)
        \/ Subtask_set_subtasks_index(o)
        \/ BaseTask_set_subtasks_index(o)

\* ---- indexed access ---------------------------------------------------------
\* the indices (0-based, as in Python) the caller passes to an owner whose list
\* has n items: every index in range, the one below and the one above
IndicesFor(n) == -1..n

\* the check without its `index < 0` half
OutOfBounds_no_negative(i, n) == i >= n

\* `if index < 0 or index >= len(...)`
OutOfBounds(i, n) == i < 0 \/ i >= n

\* `if not self.has_subtasks or self.subtasks is None` (Subtask.get_subtask, update_subtask)
Subtask_has_no_subtasks(o) == ~has_subtasks[o] \/ subtasks_is_none[o]

\* Python's own list indexing: a list of n items takes the indices -n..n-1 (a
\* negative one counts from the end) and raises IndexError on any other
InList(i, n) == -n <= i /\ i < n
Pos(i, n) == (IF i < 0 THEN i + n ELSE i) + 1

\* `list[i]`
ItemAt(list, i) == list[Pos(i, Len(list))]

\* `del list[i + 1]`, and nothing when i is the last index
RemoveAt_next(list, i) ==
    SubSeq(list, 1, Pos(i, Len(list))) \o SubSeq(list, Pos(i, Len(list)) + 2, Len(list))

\* `del list[i]`
RemoveAt(list, i) ==
    SubSeq(list, 1, Pos(i, Len(list)) - 1) \o SubSeq(list, Pos(i, Len(list)) + 1, Len(list))

\* `list[i] = c`
ReplaceAt(list, i, c) == [list EXCEPT ![Pos(i, Len(list))] = c]

\* the call raises IndexError at its own check, or the list does at the access
IndexFails(i, n) == OutOfBounds(i, n) \/ ~InList(i, n)

Task_get_subtask(o, i) ==
    /\ KindOf(o) = "task" /\ Live(o)
    /\ last' = IF IndexFails(i, Len(subtasks[o]))
               THEN Raised("get_subtask", o, i, "IndexError")
               ELSE Returned("get_subtask", o, i, ItemAt(subtasks[o], i), <<>>)
    /\ UNCHANGED <<llmVars, rootKind, treeVars>>

Subtask_get_subtask(o, i) ==
    /\ KindOf(o) = "subtask" /\ Live(o)
    /\ last' = IF Subtask_has_no_subtasks(o)
               THEN Raised("get_subtask", o, i, "ValueError")
               ELSE IF IndexFails(i, Len(subtasks[o]))
               THEN Raised("get_subtask", o, i, "IndexError")
               ELSE Returned("get_subtask", o, i, ItemAt(subtasks[o], i), <<>>)
    /\ UNCHANGED <<llmVars, rootKind, treeVars>>

BaseTask_get_subtask(o, i) ==
    /\ KindOf(o) = "base" /\ Live(o)
    /\ last' = IF IndexFails(i, Len(subtasks[o]))
               THEN Raised("get_subtask", o, i, "IndexError")
               ELSE Returned("get_subtask", o, i, ItemAt(subtasks[o], i), <<>>)
    /\ UNCHANGED <<llmVars, rootKind, treeVars>>

GetSubtask ==
    \E o \in Nodes : \E i \in IndicesFor(Len(Items(o))) :
        \/ Task_get_subtask(o, i)
        \/ Subtask_get_subtask(o, i)
        \/ BaseTask_get_subtask(o, i)

\* ---- remove_subtask ---------------------------------------------------------
Task_remove_subtask(o, i) ==
    /\ KindOf(o) = "task" /\ Live(o)
    /\ IF IndexFails(i, Len(subtasks[o]))
       THEN /\ last' = Raised("remove_subtask", o, i, "IndexError")
            /\ UNCHANGED <<llmVars, rootKind, treeVars>>
       ELSE LET list == RemoveAt(subtasks[o], i) IN
            /\ subtasks' = [subtasks EXCEPT ![o] = list]
            /\ index' = Task_set_subtask_index_on(index, o, list)
            /\ held' = held \ {ItemAt(subtasks[o], i)}
            /\ last' = Did("remove_subtask", o, i, ItemAt(subtasks[o], i))
            /\ UNCHANGED <<llmVars, rootKind, estimated_minutes, has_subtasks, subtasks_is_none,
                           supertask, supertask_id, supertask_type, comments>>

Subtask_remove_subtask(o, i) ==
    /\ KindOf(o) = "subtask" /\ Live(o)
    /\ IF subtasks_is_none[o] \/ IndexFails(i, Len(subtasks[o]))
       THEN /\ last' = Raised("remove_subtask", o, i, "IndexError")
            /\ UNCHANGED <<llmVars, rootKind, treeVars>>
       ELSE LET list == RemoveAt(subtasks[o], i) IN
            /\ subtasks' = [subtasks EXCEPT ![o] = list]
            /\ index' = Subtask_set_subtasks_index_on(index, FALSE, list)
            /\ held' = held \ {ItemAt(subtasks[o], i)}
            /\ last' = Did("remove_subtask", o, i, ItemAt(subtasks[o], i))
            /\ UNCHANGED <<llmVars, rootKind, estimated_minutes, has_subtasks, subtasks_is_none,
                           supertask, supertask_id, supertask_type, comments>>

BaseTask_remove_subtask(o, i) ==
    /\ KindOf(o) = "base" /\ Live(o)
    /\ IF IndexFails(i, Len(subtasks[o]))
       THEN /\ last' = Raised("remove_subtask", o, i, "IndexError")
            /\ UNCHANGED <<llmVars, rootKind, treeVars>>
       ELSE LET list == RemoveAt(subtasks[o], i) IN
            /\ subtasks' = [subtasks EXCEPT ![o] = list]
            /\ index' = BaseTask_set_subtasks_index_on(index, list)
            /\ held' = held \ {ItemAt(subtasks[o], i)}
            /\ last' = Did("remove_subtask", o, i, ItemAt(subtasks[o], i))
            /\ UNCHANGED <<llmVars, rootKind, estimated_minutes, has_subtasks, subtasks_is_none,
                           supertask, supertask_id, supertask_type, comments>>

RemoveSubtask ==
    \E o \in Nodes : \E i \in IndicesFor(Len(Items(o))) :
        \/ Task_remove_subtask(o, i)
        \/ Subtask_remove_subtask(o, i)
        \/ BaseTask_remove_subtask(o, i)

\* ---- update_subtask ---------------------------------------------------------
Task_update_subtask(o, i, c) ==
    /\ KindOf(o) = "task" /\ Live(o)
    /\ IF IndexFails(i, Len(subtasks[o]))
       THEN /\ last' = Raised("update_subtask", o, i, "IndexError")
            /\ UNCHANGED <<llmVars, rootKind, treeVars>>
       ELSE /\ Attachable(o, c)
            /\ subtasks' = [subtasks EXCEPT ![o] = ReplaceAt(@, i, c)]
            /\ held' = held \ {ItemAt(subtasks[o], i)}
            /\ last' = Did("update_subtask", o, i, c)
            /\ UNCHANGED <<llmVars, rootKind, estimated_minutes, has_subtasks, subtasks_is_none, index,
                           supertask, supertask_id, supertask_type, comments>>

Subtask_update_subtask(o, i, c) ==
    /\ KindOf(o) = "subtask" /\ Live(o)
    /\ IF Subtask_has_no_subtasks(o)
       THEN /\ last' = Raised("update_subtask", o, i, "ValueError")
            /\ UNCHANGED <<llmVars, rootKind, treeVars>>
       ELSE IF IndexFails(i, Len(subtasks[o]))
       THEN /\ last' = Raised("update_subtask", o, i, "IndexError")
            /\ UNCHANGED <<llmVars, rootKind, treeVars>>
       ELSE /\ Attachable(o, c)
            /\ subtasks' = [subtasks EXCEPT ![o] = ReplaceAt(@, i, c)]
            /\ SetLinks(Subtask_set_supertask(Links, c, o, "subtask"))
            /\ held' = held \ {ItemAt(subtasks[o], i)}
            /\ last' = Did("update_subtask", o, i, c)
            /\ UNCHANGED <<llmVars, rootKind, estimated_minutes, has_subtasks, subtasks_is_none, index,
                           comments>>

BaseTask_update_subtask(o, i, c) ==
    /\ KindOf(o) = "base" /\ Live(o)
    /\ IF IndexFails(i, Len(subtasks[o]))
       THEN /\ last' = Raised("update_subtask", o, i, "IndexError")
            /\ UNCHANGED <<llmVars, rootKind, treeVars>>
       ELSE /\ Attachable(o, c)
            /\ subtasks' = [subtasks EXCEPT ![o] = ReplaceAt(@, i, c)]
            /\ held' = held \ {ItemAt(subtasks[o], i)}
            /\ last' = Did("update_subtask", o, i, c)
            /\ UNCHANGED <<llmVars, rootKind, estimated_minutes, has_subtasks, subtasks_is_none, index,
                           supertask, supertask_id, supertask_type, comments>>

UpdateSubtask ==
    \E o \in Nodes, c \in Subs : \E i \in IndicesFor(Len(Items(o))) :
        \/ Task_update_subtask(o, i, c)
        \/ Subtask_update_subtask(o, i, c)
        \/ BaseTask_update_subtask(o, i, c)

\* ---- clear_subtasks ---------------------------------------------------------
\* the Subtask objects whose list Subtask.clear_subtasks clears, itself included
RECURSIVE Subtask_cleared(_)
Subtask_cleared(s) ==
    IF subtasks_is_none[s] THEN {}
    ELSE {s} \cup UNION {Subtask_cleared(c) : c \in Range(subtasks[s])}

Task_clear_subtasks(o) ==
    /\ KindOf(o) = "task" /\ Live(o)
    /\ subtasks' = [subtasks EXCEPT ![o] = <<>>]
    /\ held' = held \ Range(subtasks[o])
    /\ last' = Did("clear_subtasks", o, None, None)
    /\ UNCHANGED <<llmVars, rootKind, estimated_minutes, has_subtasks, subtasks_is_none, index,
                   supertask, supertask_id, supertask_type, comments>>

Subtask_clear_subtasks(o) ==
    /\ KindOf(o) = "subtask" /\ Live(o)
    /\ LET gone == Subtask_cleared(o) IN
        /\ subtasks' = [n \in Nodes |-> IF n \in gone THEN <<>> ELSE subtasks[n]]
        /\ has_subtasks' = [n \in Nodes |-> IF n \in gone THEN FALSE ELSE has_subtasks[n]]
        /\ held' = held \ UNION {Range(subtasks[n]) : n \in gone}
    /\ last' = Did("clear_subtasks", o, None, None)
    /\ UNCHANGED <<llmVars, rootKind, estimated_minutes, subtasks_is_none, index,
                   supertask, supertask_id, supertask_type, comments>>

BaseTask_clear_subtasks(o) ==
    /\ KindOf(o) = "base" /\ Live(o)
    /\ subtasks' = [subtasks EXCEPT ![o] = <<>>]
    /\ held' = held \ Range(subtasks[o])
    /\ last' = Did("clear_subtasks", o, None, None)
    /\ UNCHANGED <<llmVars, rootKind, estimated_minutes, has_subtasks, subtasks_is_none, index,
                   supertask, supertask_id, supertask_type, comments>>

ClearSubtasks ==
    \E o \in Nodes :
        \/ Task_clear_subtasks(o)
        \/ Subtask_clear_subtasks(o)
        \/ BaseTask_clear_subtasks(o)

\* ---- set_supertask_of_subtask(s) ------------------------------------------------
\* set_supertask_of_subtasks that never descends
Subtask_set_supertask_of_subtasks_flat(st, s) == st

\* Subtask.set_supertask_of_subtasks on the Subtask s
RECURSIVE Subtask_set_supertask_of_subtasks_on(_, _), PropagateFrom(_, _, _, _, _)
Subtask_set_supertask_of_subtasks_on(st, s) ==
    IF has_subtasks[s] /\ ~subtasks_is_none[s]
    THEN PropagateFrom(st, s, "subtask", subtasks[s], 1)
    ELSE st

\* `for subtask in list: subtask.set_supertask(parent, typ);
\*                       subtask.set_supertask_of_subtasks()`, from position p on
PropagateFrom(st, parent, typ, list, p) ==
    IF p > Len(list) THEN st
    ELSE LET st1 == Subtask_set_supertask(st, list[p], parent, typ)
             st2 == Subtask_set_supertask_of_subtasks_on(st1, list[p])
         IN PropagateFrom(st2, parent, typ, list, p + 1)

Task_set_supertask_of_subtask(o) ==
    /\ KindOf(o) = "task" /\ Live(o)
    /\ SetLinks(PropagateFrom(Links, o, "task", subtasks[o], 1))
    /\ last' = Did("set_supertask_of_subtasks", o, None, None)
    /\ UNCHANGED <<llmVars, rootKind, estimated_minutes, has_subtasks, subtasks, subtasks_is_none,
                   index, comments, held>>

Subtask_set_supertask_of_subtasks(o) ==
    /\ KindOf(o) = "subtask" /\ Live(o)
    /\ SetLinks(Subtask_set_supertask_of_subtasks_on(Links, o))
    /\ last' = Did("set_supertask_of_subtasks", o, None, None)
    /\ UNCHANGED <<llmVars, rootKind, estimated_minutes, has_subtasks, subtasks, subtasks_is_none,
                   index, comments, held>>

\* BaseTask.set_supertask_of_subtasks is left to the subclasses: its body is `pass`
BaseTask_set_supertask_of_subtasks(o) ==
    /\ KindOf(o) = "base" /\ Live(o)
    /\ last' = Did("set_supertask_of_subtasks", o, None, None)
    /\ UNCHANGED <<llmVars, rootKind, treeVars>>

SetSupertaskOfSubtasks ==
    \E o \in Nodes :
        \/ Task_set_supertask_of_subtask(o)
        \/ Subtask_set_supertask_of_subtasks(o)
        \/ BaseTask_set_supertask_of_subtasks(o)

\* ---- get_root ---------------------------------------------------------------------
\* Subtask declares get_supertask and set_supertask (Subtask.py:48-61) and no
\* get_root; Task and BaseTask declare none either.  The attribute lookup ends in
\* pydantic's BaseModel.__getattr__, which raises AttributeError.
Subtask_get_root(o) ==
    /\ KindOf(o) = "subtask" /\ Live(o)
    /\ last' = Raised("get_root", o, None, "AttributeError")
    /\ UNCHANGED <<llmVars, rootKind, treeVars>>

GetRoot == \E o \in Subs : Subtask_get_root(o)

\* ---- get_all_subtasks -----------------------------------------------------------
RECURSIVE Subtask_get_all_subtasks_of(_), Subtask_extend_from(_, _, _)
\* `subtasks = self.subtasks.copy(); for subtask in self.subtasks:
\*      subtasks += subtask.get_all_subtasks()`
Subtask_get_all_subtasks_of(s) ==
    IF has_subtasks[s] /\ ~subtasks_is_none[s]
    THEN Subtask_extend_from(subtasks[s], subtasks[s], 1)
    ELSE <<>>

Subtask_extend_from(acc, list, p) ==
    IF p > Len(list) THEN acc
    ELSE Subtask_extend_from(acc \o Subtask_get_all_subtasks_of(list[p]), list, p + 1)

\* `for subtask in self.subtasks: all_subtasks.append(subtask);
\*      all_subtasks.extend(subtask.get_all_subtasks())`
RECURSIVE Task_get_all_subtasks_from(_, _, _)
Task_get_all_subtasks_from(acc, list, p) ==
    IF p > Len(list) THEN acc
    ELSE Task_get_all_subtasks_from(
             Append(acc, list[p]) \o Subtask_get_all_subtasks_of(list[p]), list, p + 1)

Task_get_all_subtasks_of(o) == Task_get_all_subtasks_from(<<>>, subtasks[o], 1)

Task_get_all_subtasks(o) ==
    /\ KindOf(o) = "task" /\ Live(o)
    /\ last' = Returned("get_all_subtasks", o, None, None, Task_get_all_subtasks_of(o))
    /\ UNCHANGED <<llmVars, rootKind, treeVars>>

Subtask_get_all_subtasks(o) ==
    /\ KindOf(o) = "subtask" /\ Live(o)
    /\ last' = Returned("get_all_subtasks", o, None, None, Subtask_get_all_subtasks_of(o))
    /\ UNCHANGED <<llmVars, rootKind, treeVars>>

GetAllSubtasks ==
    \E o \in Nodes :
        \/ Task_get_all_subtasks(o)
        \/ Subtask_get_all_subtasks(o)

\* ---- duration roll-up: Task.update_total_minutes ----------------------------------
\* Subtask.set_total_estimated_minutes: the node's own sum first, then the children
RECURSIVE Subtask_set_total_estimated_minutes_on(_, _), SetTotalFrom(_, _, _)
Subtask_set_total_estimated_minutes_on(est, s) ==
    IF has_subtasks[s] /\ ~subtasks_is_none[s]
    THEN SetTotalFrom([est EXCEPT ![s] = SumOver(est, subtasks[s])], subtasks[s], 1)
    ELSE est

SetTotalFrom(est, list, p) ==
    IF p > Len(list) THEN est
    ELSE SetTotalFrom(Subtask_set_total_estimated_minutes_on(est, list[p]), list, p + 1)

\* Task.calculate_total_minutes: the loop from position p on, with the total so far
RECURSIVE Task_calculate_total_minutes_from(_, _, _, _)
Task_calculate_total_minutes_from(est, total, list, p) ==
    IF p > Len(list) THEN [est |-> est, total |-> total]
    ELSE LET est1 == Subtask_set_total_estimated_minutes_on(est, list[p])
         IN Task_calculate_total_minutes_from(est1, total + est1[list[p]], list, p + 1)

Task_calculate_total_minutes_of(o) ==
    Task_calculate_total_minutes_from(estimated_minutes, 0, subtasks[o], 1)

Task_calculate_total_minutes(o) ==
    /\ KindOf(o) = "task" /\ Live(o)
    /\ LET r == Task_calculate_total_minutes_of(o) IN
        /\ estimated_minutes' = r.est
        /\ last' = Returned("calculate_total_minutes", o, None, r.total, <<>>)
    /\ UNCHANGED <<llmVars, rootKind, has_subtasks, subtasks, subtasks_is_none, index,
                   supertask, supertask_id, supertask_type, comments, held>>

Task_update_total_minutes(o) ==
    /\ KindOf(o) = "task" /\ Live(o)
    /\ LET r == Task_calculate_total_minutes_of(o) IN
        /\ estimated_minutes' = [r.est EXCEPT ![o] = r.total]
        /\ last' = Did("update_total_minutes", o, None, None)
    /\ UNCHANGED <<llmVars, rootKind, has_subtasks, subtasks, subtasks_is_none, index,
                   supertask, supertask_id, supertask_type, comments, held>>

Subtask_set_total_estimated_minutes(o) ==
    /\ KindOf(o) = "subtask" /\ Live(o)
    /\ estimated_minutes' = Subtask_set_total_estimated_minutes_on(estimated_minutes, o)
    /\ last' = Did("set_total_estimated_minutes", o, None, None)
    /\ UNCHANGED <<llmVars, rootKind, has_subtasks, subtasks, subtasks_is_none, index,
                   supertask, supertask_id, supertask_type, comments, held>>

\* ---- duration roll-up: BaseTask.update_estimated_minutes ------------------------
\* the fields update_estimated_minutes and the comparisons it makes read, as one
\* value (estimated_minutes, which the loop writes, is passed beside it)
Heap == [has |-> has_subtasks, subs |-> subtasks, none |-> subtasks_is_none,
         idx |-> index, sup |-> supertask, sid |-> supertask_id,
         styp |-> supertask_type]

ItemsIn(h, n) == IF h.none[n] THEN <<>> ELSE h.subs[n]

\* pydantic's BaseModel.__eq__ on two distinct objects, as list.index and list ==
\* call it: "T", "F", or "R" when the comparison re-enters itself and Python
\* raises RecursionError.  The classes must agree; the private attribute
\* (_supertask) is compared first, then the fields in declaration order; an
\* identical object, in a list or in the private attribute, compares equal
\* without a call.  `prog` are the comparisons in progress.
RECURSIVE ModelEq(_, _, _, _, _), ListEqFrom(_, _, _, _, _, _)
ModelEq(a, b, h, est, prog) ==
    IF KindOf(a) # KindOf(b) THEN "F"
    ELSE IF <<a, b>> \in prog THEN "R"
    ELSE LET prog1 == prog \cup {<<a, b>>}
             priv  == IF h.sup[a] = h.sup[b] THEN "T"
                      ELSE IF h.sup[a] = None \/ h.sup[b] = None THEN "F"
                      ELSE ModelEq(h.sup[a], h.sup[b], h, est, prog1)
         IN IF priv # "T" THEN priv
            ELSE IF \/ NameOf(a) # NameOf(b)
                    \/ IdOf(a) # IdOf(b)
                    \/ h.idx[a] # h.idx[b]
                    \/ est[a] # est[b]
                    \/ h.has[a] # h.has[b]
                    \/ h.none[a] # h.none[b]
                    \/ Len(ItemsIn(h, a)) # Len(ItemsIn(h, b))
                 THEN "F"
            ELSE LET l == ListEqFrom(ItemsIn(h, a), ItemsIn(h, b), h, est, prog1, 1)
                 IN IF l # "T" THEN l
                    ELSE IF \/ h.sid[a] # h.sid[b]
                            \/ h.styp[a] # h.styp[b]
                         THEN "F"
                         ELSE "T"

ListEqFrom(x, y, h, est, prog, p) ==
    IF p > Len(x) THEN "T"
    ELSE IF x[p] = y[p] THEN ListEqFrom(x, y, h, est, prog, p + 1)
    ELSE LET r == ModelEq(x[p], y[p], h, est, prog)
         IN IF r = "T" THEN ListEqFrom(x, y, h, est, prog, p + 1) ELSE r

\* list.index(x): the 0-based position of the first item that is x or equals x,
\* or the exception raised
RECURSIVE ListIndexFrom(_, _, _, _, _)
ListIndexFrom(list, x, h, est, p) ==
    IF p > Len(list) THEN [exc |-> "ValueError", pos |-> None]
    ELSE IF list[p] = x THEN [exc |-> "ok", pos |-> p - 1]
    ELSE LET r == ModelEq(list[p], x, h, est, {})
         IN IF r = "T" THEN [exc |-> "ok", pos |-> p - 1]
            ELSE IF r = "R" THEN [exc |-> "RecursionError", pos |-> None]
            ELSE ListIndexFrom(list, x, h, est, p + 1)

ListIndex(list, x, h, est) == ListIndexFrom(list, x, h, est, 1)

\* One pass of the `while True` loop (BaseTask.py:148-172) from the top, with the
\* loop's variables; `seen` are the configurations the loop has been in (the
\* loop is deterministic: a configuration met again is met for ever).
RECURSIVE UpdateLoop(_, _, _, _, _, _)
UpdateLoop(current, stack, visited, h, est, seen) ==
    LET cfg == <<current, stack, visited, est>> IN
    IF cfg \in seen THEN [est |-> est, outcome |-> "diverged"]
    ELSE
    LET push     == h.has[current] /\ current \notin visited
        stack1   == IF push THEN Append(stack, current) ELSE stack
        visited1 == IF push THEN visited \cup {current} ELSE visited
        seen1    == seen \cup {cfg}
    IN
    IF push /\ ItemsIn(h, current) # <<>>
    THEN UpdateLoop(h.subs[current][1], stack1, visited1, h, est, seen1)
    ELSE IF h.has[current] /\ h.none[current]
    THEN [est |-> est, outcome |-> "TypeError"]
    ELSE
    LET est1 == IF h.has[current]
                THEN [est EXCEPT ![current] = SumOver(est, h.subs[current])]
                ELSE est
    IN
    IF stack1 = <<>> THEN [est |-> est1, outcome |-> "ok"]
    ELSE
    LET parent == stack1[Len(stack1)]
        at     == ListIndex(ItemsIn(h, parent), current, h, est1)
    IN
    IF at.exc # "ok" THEN [est |-> est1, outcome |-> at.exc]
    ELSE IF at.pos + 1 < Len(h.subs[parent])
    THEN UpdateLoop(h.subs[parent][at.pos + 2], stack1, visited1, h, est1, seen1)
    ELSE UpdateLoop(parent, SubSeq(stack1, 1, Len(stack1) - 1), visited1, h, est1, seen1)

\* BaseTask.update_estimated_minutes on o in the heap h
BaseTask_update_estimated_minutes_on(h, est, o) ==
    IF ~h.has[o] \/ ItemsIn(h, o) = <<>>
    THEN [est |-> est, outcome |-> "ok"]
    ELSE UpdateLoop(o, <<>>, {}, h, est, {})

BaseTask_update_estimated_minutes(o) ==
    /\ KindOf(o) = "base" /\ Live(o)
    /\ LET r == BaseTask_update_estimated_minutes_on(Heap, estimated_minutes, o) IN
        /\ estimated_minutes' = r.est
        /\ last' = Call("update_estimated_minutes", o, None, None, r.outcome,
                        IF r.outcome = "ok" THEN r.est[o] ELSE None, <<>>)
    /\ UNCHANGED <<llmVars, rootKind, has_subtasks, subtasks, subtasks_is_none, index,
                   supertask, supertask_id, supertask_type, comments, held>>

RollUp ==
    \E o \in Nodes :
        \/ Task_calculate_total_minutes(o)
        \/ Task_update_total_minutes(o)
        \/ Subtask_set_total_estimated_minutes(o)
        \/ BaseTask_update_estimated_minutes(o)

\* ---- TaskGenerator.generate_subtasks -------------------------------------------------
Subtree(c) == {c} \cup Descendants(c)

\* The lists SubtaskParser.parse can return for a breakdown of o (the empty list
\* when the output does not parse): Subtask objects not yet in any list, each
\* with the subtree _create_subtask_from_dict builds by add_subtask, where
\* has_subtasks is set exactly on the nodes with items and no parent is linked.
ParsedLists(o) ==
    {s \in UNION {[1..k -> Subs] : k \in 0..MaxParsed} :
        /\ \A p \in DOMAIN s : Attachable(o, s[p])
        /\ \A p \in DOMAIN s : \A n \in Subtree(s[p]) :
              /\ has_subtasks[n] <=> Items(n) # <<>>
              /\ supertask[n] = None
        /\ \A p, q \in DOMAIN s : p # q => s[p] # s[q]}

\* a field as the parser's constructor call leaves it on the objects T
Parsed(f, T, v) == [n \in Nodes |-> IF n \in T THEN v ELSE f[n]]

\* On a Task the assignment of has_subtasks (line 145) raises: Task has no such
\* field.  The list is already assigned by then (line 144).
Task_generate_subtasks(o, list) ==
    /\ KindOf(o) = "task" /\ Live(o)
    /\ LET T == UNION {Subtree(c) : c \in Range(list)} IN
        /\ subtasks' = [subtasks EXCEPT ![o] = list]
        /\ subtasks_is_none' = Parsed(subtasks_is_none, T, FALSE)
        /\ index' = Parsed(index, T, 0)
        /\ supertask_id' = Parsed(supertask_id, T, 0)
        /\ supertask_type' = Parsed(supertask_type, T, "")
    /\ held' = held \ Range(subtasks[o])
    /\ last' = Call("generate_subtasks", o, None, None, "ValueError", None, <<"attach">>)
    /\ UNCHANGED <<rootKind, estimated_minutes, has_subtasks, supertask, comments>>

\* On a Subtask the parent links and the indices are set (lines 148-149), then
\* update_estimated_minutes (line 150) raises: Subtask has no such method.
Subtask_generate_subtasks(o, list) ==
    /\ KindOf(o) = "subtask" /\ Live(o)
    /\ LET T   == UNION {Subtree(c) : c \in Range(list)}
           st0 == [sup  |-> supertask,
                   sid  |-> Parsed(supertask_id, T, 0),
                   styp |-> Parsed(supertask_type, T, "")]
       IN
        /\ subtasks' = [subtasks EXCEPT ![o] = list]
        /\ subtasks_is_none' = Parsed(subtasks_is_none, T \cup {o}, FALSE)
        /\ has_subtasks' = [has_subtasks EXCEPT ![o] = Len(list) > 0]
        /\ SetLinks(IF Len(list) > 0 THEN PropagateFrom(st0, o, "subtask", list, 1) ELSE st0)
        /\ index' = Subtask_set_subtasks_index_on(Parsed(index, T, 0), FALSE, list)
    /\ held' = held \ Range(Items(o))
    /\ last' = Call("generate_subtasks", o, None, None, "AttributeError", None,
                    <<"attach", "propagate_supertasks", "reindex">>)
    /\ UNCHANGED <<rootKind, estimated_minutes, comments>>

\* On a BaseTask every call is there: set_supertask_of_subtasks (`pass`),
\* set_subtasks_index, update_estimated_minutes (line 150) and, the object not
\* being a Subtask, update_estimated_minutes again (line 156).
BaseTask_generate_subtasks(o, list) ==
    /\ KindOf(o) = "base" /\ Live(o)
    /\ LET T  == UNION {Subtree(c) : c \in Range(list)}
           h  == [has  |-> [has_subtasks EXCEPT ![o] = Len(list) > 0],
                  subs |-> [subtasks EXCEPT ![o] = list],
                  none |-> Parsed(subtasks_is_none, T, FALSE),
                  idx  |-> BaseTask_set_subtasks_index_on(Parsed(index, T, 0), list),
                  sup  |-> supertask,
                  sid  |-> Parsed(supertask_id, T, 0),
                  styp |-> Parsed(supertask_type, T, "")]
           r1 == BaseTask_update_estimated_minutes_on(h, estimated_minutes, o)
           r2 == IF r1.outcome = "ok"
                 THEN BaseTask_update_estimated_minutes_on(h, r1.est, o)
                 ELSE r1
       IN
        /\ subtasks' = h.subs
        /\ subtasks_is_none' = h.none
        /\ has_subtasks' = h.has
        /\ index' = h.idx
        /\ supertask_id' = h.sid
        /\ supertask_type' = h.styp
        /\ estimated_minutes' = r2.est
        /\ last' = Call("generate_subtasks", o, None, None, r2.outcome, None,
                        <<"attach", "propagate_supertasks", "reindex">>
                            \o (IF r1.outcome = "ok" THEN <<"update_estimated_minutes">> ELSE <<>>)
                            \o (IF r2.outcome = "ok" THEN <<"update_estimated_minutes">> ELSE <<>>))
    /\ held' = held \ Range(subtasks[o])
    /\ UNCHANGED <<rootKind, supertask, comments>>

\* the breakdown alone, for any list the parser can have returned
GenerateSubtasks ==
    \E o \in Nodes : \E list \in ParsedLists(o) :
        \/ Task_generate_subtasks(o, list) /\ UNCHANGED llmVars
        \/ Subtask_generate_subtasks(o, list) /\ UNCHANGED llmVars
        \/ BaseTask_generate_subtasks(o, list) /\ UNCHANGED llmVars

\* ---- comments (BaseTask only) ------------------------------------------------------
BaseTask_add_comments(o, c) ==
    /\ KindOf(o) = "base" /\ Live(o)
    /\ Len(comments) < MaxComments
    /\ comments' = Append(comments, c)
    /\ last' = Did("add_comments", o, None, None)
    /\ UNCHANGED <<llmVars, rootKind, estimated_minutes, has_subtasks, subtasks, subtasks_is_none,
                   index, supertask, supertask_id, supertask_type, held>>

BaseTask_clear_comments(o) ==
    /\ KindOf(o) = "base" /\ Live(o)
    /\ comments' = <<>>
    /\ last' = Did("clear_comments", o, None, None)
    /\ UNCHANGED <<llmVars, rootKind, estimated_minutes, has_subtasks, subtasks, subtasks_is_none,
                   index, supertask, supertask_id, supertask_type, held>>

BaseTask_delete_comments(o, i) ==
    /\ KindOf(o) = "base" /\ Live(o)
    /\ IF IndexFails(i, Len(comments))
       THEN /\ last' = Raised("delete_comments", o, i, "IndexError")
            /\ UNCHANGED <<llmVars, rootKind, treeVars>>
       ELSE /\ comments' = RemoveAt(comments, i)
            /\ last' = Did("delete_comments", o, i, None)
            /\ UNCHANGED <<llmVars, rootKind, estimated_minutes, has_subtasks, subtasks,
                           subtasks_is_none, index, supertask, supertask_id,
                           supertask_type, held>>

BaseTask_update_comments(o, i, c) ==
    /\ KindOf(o) = "base" /\ Live(o)
    /\ IF IndexFails(i, Len(comments))
       THEN /\ last' = Raised("update_comments", o, i, "IndexError")
            /\ UNCHANGED <<llmVars, rootKind, treeVars>>
       ELSE /\ comments' = ReplaceAt(comments, i, c)
            /\ last' = Did("update_comments", o, i, None)
            /\ UNCHANGED <<llmVars, rootKind, estimated_minutes, has_subtasks, subtasks,
                           subtasks_is_none, index, supertask, supertask_id,
                           supertask_type, held>>

BaseTask_get_comments(o, i) ==
    /\ KindOf(o) = "base" /\ Live(o)
    /\ last' = IF IndexFails(i, Len(comments))
               THEN Raised("get_comments", o, i, "IndexError")
               ELSE Returned("get_comments", o, i, None, <<ItemAt(comments, i)>>)
    /\ UNCHANGED <<llmVars, rootKind, treeVars>>

Comments ==
    \E o \in Nodes, c \in CommentValues : \E i \in IndicesFor(Len(comments)) :
        \/ BaseTask_add_comments(o, c)
        \/ BaseTask_clear_comments(o)
        \/ BaseTask_delete_comments(o, i)
        \/ BaseTask_update_comments(o, i, c)
        \/ BaseTask_get_comments(o, i)

\* ---- the LLM-backed operations -----------------------------------------------
TaskNames == {"", "  ", "plan a trip"}
\* `not task_name or not task_name.strip()`
Blank(name) == name \in {"", "  "}
\* `not task_to_breakdown`: a pydantic model has neither __bool__ nor __len__
Falsy(o) == FALSE

\* what the model answers to a breakdown request: prose, and lists of the
\* Subtask objects of 5 and 10 minutes
LLMTexts ==
    { <<Prose>>,
      <<Fence, JsonTag, Dump(JList(<<JPlain("B1", 5)>>)), Fence>>,
      <<Dump(JNested("T", 0, <<JPlain("B1", 5), JPlain("A", 10)>>))>>,
      <<Dump(JList(<<JNested("A", 10, <<JPlain("B1", 5)>>)>>))>> }

\* the heap object c is the Subtask the parser built as `node`
RECURSIVE IsObject(_, _)
IsObject(node, c) ==
    /\ estimated_minutes[c] = node.estimated_minutes
    /\ has_subtasks[c] = node.has_subtasks
    /\ Len(Items(c)) = Len(node.subtasks)
    /\ \A p \in DOMAIN node.subtasks : IsObject(node.subtasks[p], Items(c)[p])
AreObjects(nodes, list) ==
    /\ Len(list) = Len(nodes)
    /\ \A p \in DOMAIN nodes : IsObject(nodes[p], list[p])

\* generate_subtasks: the guard, the chain's answer, SubtaskParser.parse, and the
\* breakdown of o with the list parse returned
TaskGenerator_generate_subtasks(o, text) ==
    IF Falsy(o)
    THEN /\ last' = Raised("generate_subtasks", o, None, "ValueError")
         /\ UNCHANGED <<llmVars, rootKind, treeVars>>
    ELSE /\ llm_output' = text
         /\ parsed' = SubtaskParser_parse(text)
         /\ UNCHANGED procVars
         /\ \E list \in ParsedLists(o) :
               /\ AreObjects(SubtaskParser_parse(text).subtasks, list)
               /\ \/ Task_generate_subtasks(o, list)
                  \/ Subtask_generate_subtasks(o, list)
                  \/ BaseTask_generate_subtasks(o, list)

\* generate_task: the name is validated, the chain (with its PydanticOutputParser)
\* answers, and `task.set_supertask_of_subtasks()` raises: Task has no such
\* method.  The new Task is lost with the exception.
TaskGenerator_generate_task(task_name, text) ==
    /\ IF Blank(task_name)
       THEN /\ last' = Call("generate_task", None, None, None, "ValueError", None, <<task_name>>)
            /\ UNCHANGED llmVars
       ELSE /\ llm_output' = text
            /\ last' = Call("generate_task", None, None, None,
                            IF Loads(Extract(text)).raised THEN "OutputParserException"
                            ELSE "AttributeError",
                            None, <<task_name>>)
            /\ UNCHANGED <<parsed, procVars>>
    /\ UNCHANGED <<rootKind, treeVars>>

\* TaskCommenter: the name is validated, the chain answers with a comment, and
\* the comment is appended to the object's comments; Task and Subtask have no
\* comments field
TaskCommenter_process_default(o, comment) ==
    /\ Live(o)
    /\ IF Blank(NameOf(o))
       THEN /\ last' = Raised("generate_comment", o, None, "ValueError")
            /\ UNCHANGED <<llmVars, comments>>
       ELSE /\ llm_output' = <<Prose>>
            /\ UNCHANGED <<parsed, procVars>>
            /\ IF KindOf(o) = "base"
               THEN /\ Len(comments) < MaxComments
                    /\ comments' = Append(comments, comment)
                    /\ last' = Did("generate_comment", o, None, None)
               ELSE /\ last' = Raised("generate_comment", o, None, "AttributeError")
                    /\ UNCHANGED comments
    /\ UNCHANGED <<rootKind, estimated_minutes, has_subtasks, subtasks, subtasks_is_none,
                   index, supertask, supertask_id, supertask_type, held>>

GenerateFromText == \E o \in Nodes, text \in LLMTexts : Live(o) /\ TaskGenerator_generate_subtasks(o, text)
GenerateTask ==
    \E task_name \in TaskNames, text \in {<<Dump(JPlain("A", 10))>>} :
        TaskGenerator_generate_task(task_name, text)
GenerateComment == \E o \in Nodes, comment \in CommentValues : TaskCommenter_process_default(o, comment)

\* ---- BaseLLMProcessor.process with a timeout ---------------------------------
\* `executor.submit(processor_func, **kwargs)`, then `future.result(timeout=timeout)`:
\* the function starts on the executor's one thread and the caller blocks
Submit(o) ==
    /\ caller = "idle" /\ worker \in {"none", "done"}
    /\ Live(o)
    /\ Len(comments) < MaxComments
    /\ caller' = "result"
    /\ worker' = "invoke"
    /\ future' = [node |-> o, state |-> "pending", raised |-> "none"]
    /\ UNCHANGED <<rootKind, treeVars, last, llm_output, parsed>>

\* the worker in _process_default, up to the answer of the chain: the blank name
\* ends the function with ValueError; the chain may take any time to answer
WorkerInvoke ==
    /\ worker = "invoke"
    /\ IF Blank(NameOf(future.node))
       THEN /\ worker' = "done"
            /\ future' = [future EXCEPT !.state = "ValueError"]
            /\ UNCHANGED llm_output
       ELSE /\ worker' = "append"
            /\ llm_output' = <<Prose>>
            /\ UNCHANGED future
    /\ UNCHANGED <<rootKind, treeVars, last, parsed, caller>>

\* the worker at `task_to_comment.comments.append(comment)` and `return comment`
WorkerAppend(comment) ==
    /\ worker = "append"
    /\ worker' = "done"
    /\ IF KindOf(future.node) = "base"
       THEN /\ comments' = Append(comments, comment)
            /\ future' = [future EXCEPT !.state = "ok"]
       ELSE /\ future' = [future EXCEPT !.state = "AttributeError"]
            /\ UNCHANGED comments
    /\ UNCHANGED <<rootKind, estimated_minutes, has_subtasks, subtasks, subtasks_is_none,
                   index, supertask, supertask_id, supertask_type, held, last,
                   llm_output, parsed, caller>>

\* future.result returns, or raises what the function raised
ResultReady ==
    /\ caller = "result" /\ worker = "done"
    /\ caller' = "shutdown"
    /\ future' = [future EXCEPT !.raised = IF future.state = "ok" THEN "none" ELSE future.state]
    /\ UNCHANGED <<rootKind, treeVars, last, llm_output, parsed, worker>>

\* the timeout elapses with the function unfinished: future.result raises
\* concurrent.futures.TimeoutError and the handler raises TimeoutError
Deadline ==
    /\ caller = "result" /\ worker # "done"
    /\ caller' = "shutdown"
    /\ future' = [future EXCEPT !.raised = "TimeoutError"]
    /\ UNCHANGED <<rootKind, treeVars, last, llm_output, parsed, worker>>

\* leaving `with ThreadPoolExecutor(...) as executor` calls shutdown(wait=True),
\* which joins the executor's thread
Joined_without_waiting(w) == TRUE
Joined(w) == w = "done"

\* the caller leaves the with block, by return or by exception, and is back
\* in its own code
Shutdown ==
    /\ caller = "shutdown"
    /\ Joined(worker)
    /\ caller' = "idle"
    /\ last' = Call("process", future.node, None, None,
                    IF future.raised = "none" THEN "ok" ELSE future.raised, None, <<>>)
    /\ UNCHANGED <<rootKind, treeVars, llm_output, parsed, worker, future>>

\* ---- specifications -----------------------------------------------------------
\* the calls that change the shape of the tree
Mutate ==
    \/ AddSubtask
    \/ RemoveSubtask
    \/ UpdateSubtask
    \/ ClearSubtasks

\* the tree with its indices
Next ==
    \/ Mutate
    \/ SetSubtasksIndex

Spec == Init /\ [][Next]_vars

\* the tree with its indexed accessors and the comments
NextAccess ==
    \/ Mutate
    \/ GetSubtask
    \/ Comments

SpecAccess == Init /\ [][NextAccess]_vars

\* the tree with its parent references
NextLinks ==
    \/ Mutate
    \/ SetSupertaskOfSubtasks
    \/ GetRoot

SpecLinks == Init /\ [][NextLinks]_vars

\* the parent references as the caller and the tree operations set them
NextParents ==
    \/ AddSubtask
    \/ UpdateSubtask
    \/ SetSupertask
    \/ SetSupertaskOfSubtasks

\* (MaxLinked Subtask objects)
InitParents ==
    /\ rootKind \in {"task", "base"}
    /\ estimated_minutes = [n \in Nodes |-> IF n = Root THEN 0 ELSE EstOf(n)]
    /\ has_subtasks = [n \in Nodes |-> FALSE]
    /\ subtasks = [n \in Nodes |-> <<>>]
    /\ subtasks_is_none = [n \in Nodes |-> n # Root]
    /\ index = [n \in Nodes |-> None]
    /\ supertask = [n \in Nodes |-> None]
    /\ supertask_id = [n \in Nodes |-> None]
    /\ supertask_type = [n \in Nodes |-> NoType]
    /\ comments = <<>>
    /\ held = 1..MaxLinked
    /\ last = Did("init", Root, None, None)
    /\ NoLLMCall

SpecParents == InitParents /\ [][NextParents]_vars

\* the tree with its durations
NextMinutes ==
    \/ AddSubtask
    \/ RemoveSubtask
    \/ RollUp
    \/ \E list \in ParsedLists(Root) :
          BaseTask_generate_subtasks(Root, list) /\ UNCHANGED llmVars

SpecMinutes == Init /\ [][NextMinutes]_vars

\* the tree as generate_subtasks rebuilds it
NextGenerate ==
    \/ AddSubtask
    \/ GenerateSubtasks

SpecGenerate == Init /\ [][NextGenerate]_vars

\* deeper trees (MaxDeep Subtask objects), built by add_subtask and flattened
InitDeep ==
    /\ rootKind \in {"task", "base"}
    /\ estimated_minutes = [n \in Nodes |-> IF n = Root THEN 0 ELSE EstOf(n)]
    /\ has_subtasks = [n \in Nodes |-> FALSE]
    /\ subtasks = [n \in Nodes |-> <<>>]
    /\ subtasks_is_none = [n \in Nodes |-> n # Root]
    /\ index = [n \in Nodes |-> None]
    /\ supertask = [n \in Nodes |-> None]
    /\ supertask_id = [n \in Nodes |-> None]
    /\ supertask_type = [n \in Nodes |-> NoType]
    /\ comments = <<>>
    /\ held = 1..MaxDeep
    /\ last = Did("init", Root, None, None)
    /\ NoLLMCall

NextDeep ==
    \/ AddSubtask
    \/ RemoveSubtask
    \/ GetAllSubtasks

SpecDeep == InitDeep /\ [][NextDeep]_vars

\* ---- the parser applied to every text -----------------------------------
InitParse ==
    /\ rootKind = "task"
    /\ estimated_minutes = [n \in Nodes |-> IF n = Root THEN 0 ELSE EstOf(n)]
    /\ has_subtasks = [n \in Nodes |-> FALSE]
    /\ subtasks = [n \in Nodes |-> <<>>]
    /\ subtasks_is_none = [n \in Nodes |-> n # Root]
    /\ index = [n \in Nodes |-> None]
    /\ supertask = [n \in Nodes |-> None]
    /\ supertask_id = [n \in Nodes |-> None]
    /\ supertask_type = [n \in Nodes |-> NoType]
    /\ comments = <<>>
    /\ held = {}
    /\ last = Did("init", Root, None, None)
    /\ llm_output \in Texts
    /\ parsed = NotParsed
    /\ caller = "idle" /\ worker = "none" /\ future = NoFuture

Parse ==
    /\ llm_output # NoText
    /\ parsed = NotParsed
    /\ parsed' = SubtaskParser_parse(llm_output)
    /\ UNCHANGED <<rootKind, treeVars, last, llm_output, procVars>>

NextParse == Parse
SpecParse == InitParse /\ [][NextParse]_vars

\* the LLM-backed operations on trees the caller builds
NextWorkflow ==
    \/ \E o, c \in Subs : Subtask_add_subtask(o, c)
    \/ GenerateFromText
    \/ GenerateTask
    \/ GenerateComment

SpecWorkflow == Init /\ [][NextWorkflow]_vars

\* process with a timeout, and between two such calls the caller's own calls
CallerStep ==
    \/ \E o \in Nodes : Submit(o)
    \/ ResultReady
    \/ Deadline
    \/ Shutdown
WorkerStep ==
    \/ WorkerInvoke
    \/ \E comment \in CommentValues : WorkerAppend(comment)
BetweenCalls ==
    /\ caller = "idle"
    /\ \/ \E o, c \in Subs : Subtask_add_subtask(o, c)
       \/ GenerateComment
       \/ BaseTask_clear_comments(Root)

NextProcess ==
    \/ CallerStep
    \/ WorkerStep
    \/ BetweenCalls

SpecProcess == Init /\ [][NextProcess]_vars

\* The calling thread and the executor's thread are scheduled, and the timeout
\* is finite; the chain's answer (WorkerInvoke) may never come.
SpecProcessFair ==
    /\ Init /\ [][NextProcess]_vars
    /\ WF_vars(ResultReady) /\ WF_vars(Deadline) /\ WF_vars(Shutdown)
    /\ WF_vars(\E comment \in CommentValues : WorkerAppend(comment))

\* the roll-up of a BaseTask on the trees add_subtask, remove_subtask and
\* clear_subtasks build; the root may have been constructed with
\* has_subtasks=True, the only way (besides generate_subtasks) for a BaseTask
\* to have the flag
InitFlagged ==
    /\ rootKind \in {"task", "base"}
    /\ estimated_minutes = [n \in Nodes |-> IF n = Root THEN 0 ELSE EstOf(n)]
    /\ has_subtasks \in {[n \in Nodes |-> n = Root /\ rootKind = "base" /\ flag] : flag \in BOOLEAN}
    /\ subtasks = [n \in Nodes |-> <<>>]
    /\ subtasks_is_none = [n \in Nodes |-> n # Root]
    /\ index = [n \in Nodes |-> None]
    /\ supertask = [n \in Nodes |-> None]
    /\ supertask_id = [n \in Nodes |-> None]
    /\ supertask_type = [n \in Nodes |-> NoType]
    /\ comments = <<>>
    /\ held = 1..MaxSubtasks
    /\ last = Did("init", Root, None, None)
    /\ NoLLMCall

NextRollUp ==
    \/ AddSubtask
    \/ RemoveSubtask
    \/ ClearSubtasks
    \/ \E o \in Nodes : BaseTask_update_estimated_minutes(o)

SpecRollUp == InitFlagged /\ [][NextRollUp]_vars

\* ======================================================================================
\* The claims
\* ======================================================================================
\* the position each item of n's list should carry as its index
IndexedByPosition(n) == \A p \in DOMAIN Items(n) : index[Items(n)[p]] = p

\* C1: after the duration roll-up has run on the root (Task.update_total_minutes,
\* BaseTask.update_estimated_minutes), every node of the tree that has children
\* carries the sum of its children's estimated_minutes as they then stand, and
\* every node without children keeps the estimated_minutes it had.
C1_RollUpSumsEveryInternalNode ==
    [][ ( /\ last'.op \in {"update_total_minutes", "update_estimated_minutes"}
          /\ last'.self = Root
          /\ last'.outcome = "ok" )
        => \A n \in {Root} \cup Descendants(Root) :
              IF Items(n) # <<>>
              THEN estimated_minutes'[n] = SumOver(estimated_minutes', Items(n))
              ELSE estimated_minutes'[n] = estimated_minutes[n] ]_vars

\* C2: in every state reached by add_subtask, remove_subtask, update_subtask and
\* clear_subtasks, a node's has_subtasks is true exactly when its list is non-empty
\* (Task has no has_subtasks field).
C2_HasSubtasksIffNonEmpty ==
    \A n \in Nodes : KindOf(n) # "task" => (has_subtasks[n] <=> Items(n) # <<>>)

\* C3: once the owner's reindex (set_subtask_index / set_subtasks_index) has run,
\* its children's index values are 1..n in list order.
C3_ReindexGivesPositions ==
    (last.op = "set_subtasks_index") => IndexedByPosition(last.self)

\* C3 witness: a reindex of an owner with at least two children, after a child
\* was taken out of some list.
C3_Witness ==
    /\ last.op = "set_subtasks_index"
    /\ Len(Items(last.self)) >= 2
    /\ held # 1..MaxSubtasks

\* C4: reindexing the root renumbers the whole subtree: every descendant at every
\* depth carries its 1-based position in its own parent's list.
C4_ReindexRenumbersWholeSubtree ==
    (last.op = "set_subtasks_index" /\ last.self = Root)
        => \A n \in {Root} \cup Descendants(Root) : IndexedByPosition(n)

\* the strict descendants of n in pre-order
RECURSIVE PreOrder(_), PreOrderFrom(_, _)
PreOrder(n) == PreOrderFrom(Items(n), 1)
PreOrderFrom(list, p) ==
    IF p > Len(list) THEN <<>>
    ELSE <<list[p]>> \o PreOrder(list[p]) \o PreOrderFrom(list, p + 1)

\* C5: get_all_subtasks returns every strict descendant exactly once and nothing
\* else, in pre-order (each child followed at once by all of its descendants); the
\* empty sequence on a node without children.
C5_FlattenIsPreOrder ==
    (last.op = "get_all_subtasks") => last.seq = PreOrder(last.self)

\* C6: after add_subtask(child) on a parent, child is the last item of the
\* parent's list with the earlier items as they were, the parent's has_subtasks is
\* true (where the class has the field), and child's parent reference, supertask_id
\* and supertask_type name the parent.
C6_AddChildAppendsAndLinks ==
    [][ (last'.op = "add_subtask")
        => LET o == last'.self
               c == last'.obj
           IN /\ ~subtasks_is_none'[o]
              /\ subtasks'[o] = Append(Items(o), c)
              /\ KindOf(o) # "task" => has_subtasks'[o]
              /\ supertask'[c] = o
              /\ supertask_id'[c] = IdOf(o)
              /\ supertask_type'[c] = IF KindOf(o) = "subtask" THEN "subtask" ELSE "task"
      ]_vars

\* C7: remove_subtask(i) with 0 <= i < n leaves the n-1 other siblings in their
\* original order, and at once (no separate reindex) their index values are
\* 1..n-1 in list order.
C7_RemoveKeepsOrderAndReindexes ==
    [][ (last'.op = "remove_subtask" /\ last'.outcome = "ok")
        => LET o   == last'.self
               i   == last'.arg
               old == subtasks[o]
               new == subtasks'[o]
           IN /\ 0 <= i /\ i < Len(old)
              /\ Len(new) = Len(old) - 1
              /\ \A p \in 1..Len(new) :
                    /\ new[p] = IF p <= i THEN old[p] ELSE old[p + 1]
                    /\ index'[new[p]] = p
      ]_vars

\* C7 witness: index 1 removed from a list of three siblings.
C7_Witness ==
    /\ last.op = "remove_subtask"
    /\ last.outcome = "ok"
    /\ last.arg = 1
    /\ Len(Items(last.self)) = 2

IndexedOps == {"get_subtask", "remove_subtask", "update_subtask",
               "get_comments", "update_comments", "delete_comments"}

\* the length of the list an indexed call looks into
LengthFor(op, o) ==
    IF op \in {"get_comments", "update_comments", "delete_comments"}
    THEN Len(comments) ELSE Len(Items(o))

\* C8 as stated: every indexed accessor or mutator called with an index outside
\* [0, len) raises IndexError and leaves the lists and the index values as they were.
C8_OutOfRangeRaisesIndexError ==
    [][ ( /\ last'.op \in IndexedOps
          /\ (last'.arg < 0 \/ last'.arg >= LengthFor(last'.op, last'.self)) )
        => (last'.outcome = "IndexError" /\ UNCHANGED treeVars) ]_vars

\* C8 as amended: such a call raises and leaves the lists and the index values as
\* they were; the exception is IndexError, except that get_subtask and
\* update_subtask of a Subtask whose has_subtasks is false (or whose list is None)
\* raise ValueError.
C8_OutOfRangeRaisesAndKeepsState ==
    [][ ( /\ last'.op \in IndexedOps
          /\ (last'.arg < 0 \/ last'.arg >= LengthFor(last'.op, last'.self)) )
        => /\ last'.outcome =
                 IF /\ KindOf(last'.self) = "subtask"
                    /\ last'.op \in {"get_subtask", "update_subtask"}
                    /\ (~has_subtasks[last'.self] \/ subtasks_is_none[last'.self])
                 THEN "ValueError" ELSE "IndexError"
           /\ UNCHANGED treeVars ]_vars

\* C8 witness: a negative index refused on a list that has items.
C8_Witness ==
    /\ last.op \in {"get_subtask", "remove_subtask", "update_subtask"}
    /\ last.arg < 0
    /\ last.outcome = "IndexError"
    /\ Items(last.self) # <<>>

\* the parent fields of every item of n's list name n
LinkedToParent(n) ==
    \A c \in Range(Items(n)) :
        /\ supertask[c] = n
        /\ supertask_id[c] = IdOf(n)
        /\ supertask_type[c] = IF KindOf(n) = "task" THEN "task" ELSE "subtask"

RECURSIVE RootWalk(_, _)
RootWalk(n, seen) ==
    IF KindOf(n) = "task" THEN [outcome |-> "ok", node |-> n]
    ELSE IF KindOf(n) = "base" \/ supertask[n] = None \/ supertask[n] \in seen
    THEN [outcome |-> "BrokenChain", node |-> None]
    ELSE RootWalk(supertask[n], seen \cup {n})

\* C10: get_root on a subtask returns the Task at the top of its chain of parent
\* references, and fails with the broken-chain failure when a node on the way up
\* has no parent reference and is not a Task.
C10_GetRootReachesTask ==
    (last.op = "get_root") =>
        [outcome |-> last.outcome, node |-> last.ret] = RootWalk(last.self, {})

\* the objects reached from n by following the parent reference one or more
\* times; `seen` are the objects already passed
RECURSIVE ParentsAbove(_, _)
ParentsAbove(n, seen) ==
    IF supertask[n] = None THEN {}
    ELSE IF supertask[n] \in seen THEN {supertask[n]}
    ELSE {supertask[n]} \cup ParentsAbove(supertask[n], seen \cup {supertask[n]})

\* C11: in every state reached by add_subtask, update_subtask, set_supertask and
\* the propagation of parent links, no node reaches itself by following parent
\* references one or more times.
C11_ParentGraphAcyclic ==
    \A n \in Nodes : n \notin ParentsAbove(n, {})

\* C20: set_supertask(task, task_type) on a node sets its parent reference to
\* task, its supertask_id to task's id (None when task has none) and its
\* supertask_type to task_type, and changes nothing else, on the node or on any
\* other object; a second call with the same arguments changes nothing at all.
C20_SetSupertaskSetsThreeFields ==
    [][ (last'.op = "set_supertask")
        => LET c == last'.self
               t == last'.obj
           IN /\ supertask'[c] = t
              /\ supertask_id'[c] = (IF t = None THEN None ELSE IdOf(t))
              /\ supertask_type'[c] = last'.seq[1]
              /\ \A n \in Nodes \ {c} :
                    /\ supertask'[n] = supertask[n]
                    /\ supertask_id'[n] = supertask_id[n]
                    /\ supertask_type'[n] = supertask_type[n]
              /\ UNCHANGED <<llmVars, rootKind, estimated_minutes, has_subtasks, subtasks,
                             subtasks_is_none, index, comments, held>>
              /\ (last = last') => UNCHANGED <<supertask, supertask_id, supertask_type>>
      ]_vars

\* C20 witness: set_supertask has replaced a parent reference that was set before
\* by an object with another id.
C20_Witness ==
    /\ last.op = "set_supertask"
    /\ last.obj # None
    /\ supertask[last.self] = last.obj
    /\ supertask_id[last.self] = IdOf(last.obj)
    /\ \E n \in Subs \ {last.self} : supertask[n] # None /\ supertask[n] # last.obj

\* ---- the parser ----------------------------------------------------------
\* what json.loads made of the text, or of the fenced block inside it
Loaded == Loads(Extract(llm_output))
Entries ==
    IF Loaded.data.t = "list" \/ (Loaded.data.t = "map" /\ "subtasks" \in Loaded.data.keys /\ Loaded.data.list)
    THEN Loaded.data.items ELSE <<Loaded.data>>
HasParsed == parsed.outcome # "none"

\* C12: parse never raises; a text that is not JSON, a scalar, and a list with an
\* entry that is not a mapping all give the empty sequence.
C12_ParseNeverRaises ==
    HasParsed =>
        /\ parsed.outcome = "returned"
        /\ Loaded.raised => parsed.subtasks = <<>>
        /\ (~Loaded.raised /\ Loaded.data.t = "scalar") => parsed.subtasks = <<>>
        /\ (~Loaded.raised /\ Loaded.data.t = "list"
                /\ \E i \in DOMAIN Loaded.data.items : Loaded.data.items[i].t # "map")
            => parsed.subtasks = <<>>

\* a list with a mapping and a scalar in it has been parsed
C12_Witness ==
    /\ HasParsed /\ ~Loaded.raised /\ Loaded.data.t = "list"
    /\ \E i, j \in DOMAIN Loaded.data.items :
          Loaded.data.items[i].t = "map" /\ Loaded.data.items[j].t = "scalar"
    /\ parsed = [outcome |-> "returned", subtasks |-> <<>>]

\* a mapping every field of which Subtask(...) accepts, at every depth
RECURSIVE Buildable(_)
Buildable(d) ==
    /\ d.t = "map"
    /\ "estimated_minutes" \in d.keys => d.minutes # None
    /\ ("subtasks" \in d.keys /\ d.list) => \A i \in DOMAIN d.items : Buildable(d.items[i])
NameFor(d) == IF "name" \in d.keys THEN d.name ELSE "Unnamed Subtask"
MinutesFor(d) == IF "estimated_minutes" \in d.keys THEN d.minutes ELSE 0
OnePerEntry ==
    /\ Len(parsed.subtasks) = Len(Entries)
    /\ \A i \in DOMAIN Entries :
          /\ parsed.subtasks[i].name = NameFor(Entries[i])
          /\ parsed.subtasks[i].estimated_minutes = MinutesFor(Entries[i])

\* C13 (as stated): a mapping with a "subtasks" list and a bare list give one
\* top-level Subtask per entry, in order; any other mapping gives exactly one.
C13_OnePerEntry ==
    (HasParsed /\ ~Loaded.raised /\ Loaded.data.t \in {"map", "list"}) => OnePerEntry

\* C13 (amended): the same, when every entry is a mapping whose fields Subtask
\* accepts, at every depth; otherwise the result is empty.
C13_OnePerBuildableEntry ==
    (HasParsed /\ ~Loaded.raised /\ Loaded.data.t \in {"map", "list"}) =>
        IF \A i \in DOMAIN Entries : Buildable(Entries[i])
        THEN OnePerEntry
        ELSE parsed.subtasks = <<>>

\* two different entries have each given their Subtask, in the order of the text
C13_Witness ==
    /\ HasParsed /\ ~Loaded.raised /\ Loaded.data.t = "map" /\ Len(Entries) = 2
    /\ Len(parsed.subtasks) = 2
    /\ parsed.subtasks[1].name = "B" /\ parsed.subtasks[2].name = "A"
    /\ Entries[1].name = "B" /\ Entries[2].name = "A"

\* the node mirrors the mapping: children, flag, defaults
RECURSIVE Mirrors(_, _)
Mirrors(node, d) ==
    LET nested == IF "subtasks" \in d.keys /\ d.list THEN d.items ELSE <<>>
    IN /\ node.name = NameFor(d)
       /\ node.estimated_minutes = MinutesFor(d)
       /\ node.has_subtasks <=> (node.subtasks # <<>>)
       /\ Len(node.subtasks) = Len(nested)
       /\ \A i \in DOMAIN nested : Mirrors(node.subtasks[i], nested[i])

\* the text {"subtasks":[A(10),B(20,[B1(5)])]}
ExampleText == <<Dump(JNested("T", 0, <<JPlain("A", 10), JNested("B", 20, <<JPlain("B1", 5)>>)>>))>>

\* C14 (as stated): every mapping handed to _create_subtask_from_dict gives a
\* node that mirrors it.
C14_NodeMirrorsMapping ==
    (HasParsed /\ ~Loaded.raised /\ Len(Entries) = 1 /\ Entries[1].t = "map") =>
        /\ Len(parsed.subtasks) = 1
        /\ Mirrors(parsed.subtasks[1], Entries[1])

\* C14 (amended): every mapping whose entries are mappings with fields Subtask
\* accepts, at every depth, gives a node that mirrors it; the example text gives
\* two top-level nodes, the second with one child.
C14_NodeMirrorsBuildableMapping ==
    HasParsed =>
        /\ (~Loaded.raised /\ \A i \in DOMAIN Entries : Buildable(Entries[i])) =>
              /\ Len(parsed.subtasks) = Len(Entries)
              /\ \A i \in DOMAIN Entries : Mirrors(parsed.subtasks[i], Entries[i])
        /\ llm_output = ExampleText =>
              /\ Len(parsed.subtasks) = 2
              /\ Len(parsed.subtasks[1].subtasks) = 0
              /\ Len(parsed.subtasks[2].subtasks) = 1

\* the example text has been parsed: B carries B1, and the flag
C14_Witness ==
    /\ HasParsed /\ llm_output = ExampleText
    /\ parsed.subtasks[2].has_subtasks
    /\ parsed.subtasks[2].subtasks[1].name = "B1"
    /\ ~parsed.subtasks[1].has_subtasks

\* ---- the LLM-backed operations -----------------------------------------
MaintenanceSteps == <<"attach", "propagate_supertasks", "reindex", "update_estimated_minutes">>

\* C15: generate_subtasks and generate_task perform attach, propagate_supertasks,
\* reindex and update_estimated_minutes in this order, and skip none of them when
\* the model returned at least one subtask.
C15_MaintenanceInOrder ==
    /\ (last.op = "generate_subtasks" /\ Items(last.self) # <<>>) =>
          /\ Len(last.seq) >= 4
          /\ SubSeq(last.seq, 1, 4) = MaintenanceSteps
          /\ IndexedByPosition(last.self)
    /\ (last.op = "generate_task" /\ ~Blank(last.seq[1])) => last.outcome = "ok"

\* C16: on a text that is not JSON generate_subtasks does not raise; it returns
\* its node with no subtasks and has_subtasks false.
C16_MalformedTextGivesNoSubtasks ==
    (last.op = "generate_subtasks" /\ Loads(Extract(llm_output)).raised) =>
        /\ last.outcome = "ok"
        /\ Items(last.self) = <<>>
        /\ ~has_subtasks[last.self]

\* C17: generate_task, generate_subtasks and the comment generation, called with
\* an empty or whitespace-only name, raise the validation failure with the model
\* not invoked and no node, list or comment changed.
C17_BlankNameFailsFirst ==
    [][ (\/ last'.op = "generate_task" /\ Blank(last'.seq[1])
         \/ last'.op \in {"generate_subtasks", "generate_comment"} /\ Blank(NameOf(last'.self)))
        => (last'.outcome = "ValueError" /\ UNCHANGED <<treeVars, llm_output>>) ]_vars

\* ---- process with a timeout ------------------------------------------------
\* C18: once the deadline has elapsed with the work unfinished, the caller gets
\* control back with the timeout failure, whether the worker finishes or not.
C18_UnblockedAtDeadline ==
    (caller = "shutdown" /\ future.raised = "TimeoutError")
        ~> (caller = "idle" /\ last.op = "process" /\ last.outcome = "TimeoutError")

C21_AddSubtaskKeepsIndices ==
    [][ (last'.op = "add_subtask") => index' = index ]_vars

\* a child appended after a reindex: its sibling carries its position, the new
\* child does not
C21_Witness ==
    /\ last.op = "add_subtask"
    /\ Len(Items(last.self)) >= 2
    /\ index[Items(last.self)[1]] = 1
    /\ index[last.obj] # Len(Items(last.self))
    /\ Items(last.self)[Len(Items(last.self))] = last.obj

\* ---- the roll-up of BaseTask ---------------------------------------------------
\* C22: update_estimated_minutes terminates on every finite tree, siblings with
\* identical field values included.
C22_RollUpTerminates ==
    (last.op = "update_estimated_minutes") => last.outcome # "diverged"

RollUpOps == {"update_estimated_minutes", "update_total_minutes",
              "calculate_total_minutes", "set_total_estimated_minutes"}

\* C23: a roll-up run a second time, immediately after the first and on the same
\* object, changes no node's estimated_minutes and returns the same total.
C23_RollUpIdempotent ==
    [][ (/\ last.op \in RollUpOps /\ last.outcome = "ok"
         /\ last'.op = last.op /\ last'.self = last.self /\ last'.outcome = "ok")
        => (estimated_minutes' = estimated_minutes /\ last'.ret = last.ret) ]_vars

\* C24: update_estimated_minutes raises nothing on the trees add_subtask,
\* remove_subtask and clear_subtasks build, a nested node whose last child was
\* removed included.
C24_RollUpRaisesNothing ==
    (last.op = "update_estimated_minutes") =>
        last.outcome \notin {"ValueError", "TypeError", "RecursionError", "IndexError"}

\* C25: parent links and child lists agree: a node whose parent reference is P
\* is an element of P.subtasks, after every add_subtask, remove_subtask,
\* update_subtask, clear_subtasks and set_supertask_of_subtasks.
C25_ParentLinksAgree ==
    \A n \in Subs : supertask[n] # None => n \in Range(Items(supertask[n]))

\* one node for every entry, at every depth
RECURSIVE NothingOmitted(_, _)
NothingOmitted(nodes, entries) ==
    /\ Len(nodes) = Len(entries)
    /\ \A i \in DOMAIN entries :
          ("subtasks" \in entries[i].keys /\ entries[i].list)
              => NothingOmitted(nodes[i].subtasks, entries[i].items)

\* C26: parse is all-or-nothing: it returns one node for every entry of the
\* sequence it parsed, or the empty list, never a list that leaves out the
\* entries that could not be built.
C26_ParseAllOrNothing ==
    HasParsed =>
        \/ parsed.subtasks = <<>>
        \/ ~Loaded.raised /\ NothingOmitted(parsed.subtasks, Entries)

\* a list whose first entry can be built and whose second has a null duration
\* has been parsed, and nothing was returned
C26_Witness ==
    /\ HasParsed /\ ~Loaded.raised /\ Loaded.data.t = "list" /\ Len(Entries) = 2
    /\ Buildable(Entries[1])
    /\ Entries[2].t = "map" /\ "estimated_minutes" \in Entries[2].keys /\ Entries[2].minutes = None
    /\ parsed = [outcome |-> "returned", subtasks |-> <<>>]

====
